---------------------------- MODULE Spec2Model ----------------------------
(***************************************************************************)
(* A model of src/src/lib.rs: one control block (Data<T>) shared by strong *)
(* handles (Arc<T>) and weak handles (Weak<T>), operated on by several     *)
(* threads.  Every atomic access of arc_count / alloc_count is one step;   *)
(* the thread-local code around it is folded into the same step.           *)
(***************************************************************************)
EXTENDS Integers, Naturals, FiniteSets, Sequences, TLC

(* ------------------------------ bounds --------------------------------- *)

\* Width of the counters in bits (usize scaled down); counters are kept
\* modulo 2^Width.
Width == 3

\* Number of threads operating on the handles.
NumThreads == 2

\* num_drops and num_frees saturate here (2 already is a double drop/free).
MaxEvents == 2

\* How many operations other than drop are started on a handle after the
\* control block's deallocation (each access may find any value there).  The
\* drop of a handle is always followed: every handle is dropped in the end.
MaxDangling == 1

(* ------------------------- program constants --------------------------- *)

\* usize::MAX + 1
Modulus == 2 ^ Width

\* usize::MAX
UsizeMax == Modulus - 1

\* usize::MAX / 2, the overflow guard of clone and upgrade
HalfMax == UsizeMax \div 2

\* The payload the control block is constructed with (the test's "hello").
Value == "hello"

\* Caps of the handle populations (guards only).
MaxArcs == UsizeMax
MaxWeaks == Modulus + 1

Threads == 1 .. NumThreads

Min(a, b) == IF a < b THEN a ELSE b

(* ------------------------------- state --------------------------------- *)

VARIABLES
    arc_count,    \* Data.arc_count
    alloc_count,  \* Data.alloc_count
    arcs,         \* number of live Arc handles (all threads)
    weaks,        \* number of live Weak handles (all threads)
    pc,           \* pc[t]: where thread t is inside an operation
    n,            \* n[t]: the local n of upgrade / downgrade (0 outside)
    stale,        \* stale[t]: the counter was written by another thread since
                  \* t read n[t] (FALSE outside the loops)
    seen,         \* seen[t], inside upgrade: "always" a strong handle has been
                  \* live since the call began, "lost" one was live at first
                  \* but at some point none was, "absent" none was live when
                  \* the call began ("-" outside upgrade)
    unguarded,    \* downgrade has raised alloc_count from above usize::MAX / 2,
                  \* where clone aborts and upgrade panics
    num_drops,    \* how often the payload's destructor has run (NUM_DROPS)
    num_frees,    \* how often the control block has been deallocated
    aborted,      \* process::abort() has terminated the process
    dangling,     \* operations (other than drops) started after deallocation
    last          \* the step taken last: [t, op, a, r]

vars == << arc_count, alloc_count, arcs, weaks, pc, n, stale, seen, unguarded,
           num_drops, num_frees, aborted, dangling, last >>

\* The record of a step: thread, operation, the number it found (a counter's
\* value; for destroy and free, how often it has now happened), its result
\* (for a retry: whether the counter had "changed" or the failure was
\* "spurious"), and for upgrade's return what seen[t] was.
EvS(t, op, a, r, s) == [t |-> t, op |-> op, a |-> a, r |-> r, s |-> s]
Ev(t, op, a, r) == EvS(t, op, a, r, "-")

\* Arc::new: the state after construction, one strong handle.
Init ==
    /\ arc_count = 1
    /\ alloc_count = 1
    /\ arcs = 1
    /\ weaks = 0
    /\ pc = [t \in Threads |-> "idle"]
    /\ n = [t \in Threads |-> 0]
    /\ stale = [t \in Threads |-> FALSE]
    /\ seen = [t \in Threads |-> "-"]
    /\ unguarded = FALSE
    /\ num_drops = 0
    /\ num_frees = 0
    /\ aborted = FALSE
    /\ dangling = 0
    /\ last = Ev(0, "new", 0, "Arc")

(* ------------------------------ helpers -------------------------------- *)

\* A thread inside downgrade holds a borrow &Arc; inside upgrade a &Weak.
ArcBorrowed == \E t \in Threads : pc[t] = "dg_cas"
WeakBorrowed == \E t \in Threads : pc[t] = "up_loop"

\* A thread may start an operation.
CanStart(t) == pc[t] = "idle" /\ ~aborted

\* A handle can be moved into drop only if no borrow of it is outstanding:
\* borrows may all be of one handle, so one handle must stay.
CanDropArc == arcs >= 1 /\ (ArcBorrowed => arcs >= 2)
CanDropWeak == weaks >= 1 /\ (WeakBorrowed => weaks >= 2)

\* What deallocated memory may hold where a counter was: any usize.  One
\* value stands for each way the code branches on it: 0 (upgrade's None), 1
\* (a drop's "last"), usize::MAX (beyond the overflow guards).
Garbage == {0, 1, UsizeMax}

\* What an access to counter c finds: its value, or, once the block has been
\* given back to the allocator (line 70), whatever the memory then holds.
Read(c) == IF num_frees = 0 THEN {c} ELSE Garbage

\* What a counter holds after v is written to it.  Once the block has been
\* deallocated the memory is no longer the counter: what is written there is
\* not what a later access finds (Read), so the variable is left as it was.
Store(c, v) == IF num_frees = 0 THEN v ELSE c

\* Clone, deref, downgrade or upgrade is called on a handle.
Call ==
    /\ num_frees > 0 => dangling < MaxDangling
    /\ dangling' = IF num_frees > 0 THEN dangling + 1 ELSE dangling

\* Thread t writes the counter the loop at `loop` works on: every other
\* thread in that loop now holds a value read before a write.
Written(t, loop) ==
    stale' = [u \in Threads |-> IF u # t /\ pc[u] = loop THEN TRUE
                                 ELSE IF u = t THEN FALSE ELSE stale[u]]

\* Thread t (re)reads the counter, or leaves its loop without writing.
Fresh(t) == stale' = [stale EXCEPT ![t] = FALSE]

\* fetch_add(1) / fetch_sub(1) on a usize: wrapping.
WrapAdd(x) == (x + 1) % Modulus
WrapSub(x) == (x + Modulus - 1) % Modulus

\* A failed exchange that keeps the value n had before it.
NoReload(t, e) == n

\* Lines 40-43 and 97-100: Err(e) => { n = e; continue; }
Reload(t, e) == [n EXCEPT ![t] = e]

\* A clone that aborts only when it finds usize::MAX.
OverflowedAtMax(old) == old >= UsizeMax

\* The overflow test of both clones, lines 59 and 124: the value before the
\* increment is above usize::MAX / 2.
Overflowed(old) == old > HalfMax

(* ------------------------------ Arc ------------------------------------ *)

\* impl Clone for Arc, lines 123-128: fetch_add(1, Relaxed), then abort if
\* the value before the increment exceeds usize::MAX / 2.
ArcClone(t) ==
    /\ CanStart(t)
    /\ Written(t, "up_loop")
    /\ arcs >= 1
    /\ arcs < MaxArcs
    /\ Call
    /\ \E old \in Read(arc_count) :
          /\ arc_count' = Store(arc_count, WrapAdd(old))
          /\ IF Overflowed(old)
               THEN /\ pc' = [pc EXCEPT ![t] = "abort"]
                    /\ arcs' = arcs
                    /\ last' = Ev(t, "arc_clone", old, "abort")
               ELSE /\ pc' = pc
                    /\ arcs' = arcs + 1
                    /\ last' = Ev(t, "arc_clone", old, "Arc")
    /\ UNCHANGED << seen, unguarded, alloc_count, weaks, n, num_drops, num_frees, aborted >>

\* process::abort(), lines 60 and 125: the process is terminated.
Abort(t) ==
    /\ pc[t] = "abort"
    /\ stale' = stale
    /\ ~aborted
    /\ aborted' = TRUE
    /\ last' = Ev(t, "abort", 0, "abort")
    /\ UNCHANGED << seen, unguarded, arc_count, alloc_count, arcs, weaks, pc, n, num_drops,
                    num_frees, dangling >>

\* What a read of the payload storage finds: the constructed value until the
\* payload is destroyed or the block deallocated, anything after that.
PayloadReads ==
    IF num_drops = 0 /\ num_frees = 0 THEN {Value} ELSE {Value, "garbage"}

\* impl Deref for Arc, lines 117-119, and the read through the reference.
ArcDeref(t) ==
    /\ CanStart(t)
    /\ stale' = stale
    /\ arcs >= 1
    /\ Call
    /\ \E v \in PayloadReads : last' = Ev(t, "deref", 0, v)
    /\ UNCHANGED << seen, unguarded, arc_count, alloc_count, arcs, weaks, pc, n, num_drops,
                    num_frees, aborted >>

\* Arc::downgrade, line 92: n = alloc_count.load(Relaxed)
DowngradeLoad(t) ==
    /\ CanStart(t)
    /\ Fresh(t)
    /\ arcs >= 1
    /\ weaks < MaxWeaks
    /\ Call
    /\ \E cur \in Read(alloc_count) :
          /\ n' = [n EXCEPT ![t] = cur]
          /\ last' = Ev(t, "downgrade_load", cur, "loaded")
    /\ pc' = [pc EXCEPT ![t] = "dg_cas"]
    /\ UNCHANGED << seen, unguarded, arc_count, alloc_count, arcs, weaks, num_drops, num_frees,
                    aborted >>

\* The value downgrade stores: n + 1.  Nothing guards it: with
\* n = usize::MAX it is 0 in a build without overflow checks.
DowngradeNew(x) == WrapAdd(x)

\* Arc::downgrade, lines 94-102: compare_exchange_weak(n, n + 1) succeeds
\* and the weak handle is returned.
DowngradeCasOk(t) ==
    /\ pc[t] = "dg_cas"
    /\ Written(t, "dg_cas")
    /\ ~aborted
    /\ dangling' = dangling
    /\ n[t] \in Read(alloc_count)
    /\ alloc_count' = Store(alloc_count, DowngradeNew(n[t]))
    /\ unguarded' = (unguarded \/ n[t] > HalfMax)
    /\ weaks' = weaks + 1
    /\ pc' = [pc EXCEPT ![t] = "idle"]
    /\ n' = [n EXCEPT ![t] = 0]
    /\ last' = Ev(t, "downgrade", n[t], "Weak")
    /\ UNCHANGED << seen, arc_count, arcs, num_drops, num_frees, aborted >>

\* Arc::downgrade, line 97, with n = usize::MAX in a build with overflow
\* checks: n + 1 panics before the exchange.
DowngradePanic(t) ==
    /\ pc[t] = "dg_cas"
    /\ Fresh(t)
    /\ ~aborted
    /\ n[t] = UsizeMax
    /\ pc' = [pc EXCEPT ![t] = "idle"]
    /\ n' = [n EXCEPT ![t] = 0]
    /\ last' = Ev(t, "downgrade", n[t], "panic")
    /\ UNCHANGED << seen, unguarded, arc_count, alloc_count, arcs, weaks, num_drops,
                    num_frees, aborted, dangling >>

\* Arc::downgrade, lines 98-100: the exchange fails, n = e, continue.
\* compare_exchange_weak may fail although alloc_count = n (spuriously).
DowngradeCasFail(t) ==
    /\ pc[t] = "dg_cas"
    /\ Fresh(t)
    /\ ~aborted
    /\ dangling' = dangling
    /\ \E cur \in Read(alloc_count) :
          /\ n' = Reload(t, cur)
          /\ last' = Ev(t, "downgrade_retry", cur,
                        IF stale[t] THEN "changed" ELSE "spurious")
    /\ UNCHANGED << seen, unguarded, arc_count, alloc_count, arcs, weaks, pc, num_drops,
                    num_frees, aborted >>

\* The test of both drops: the value before the decrement was 1.
WasLast(old) == old = 1

\* impl Drop for Weak, line 68: alloc_count.fetch_sub(1, Release) == 1
WeakFetchSub(t, op) ==
    /\ dangling' = dangling
    /\ Written(t, "dg_cas")
    /\ \E old \in Read(alloc_count) :
          /\ alloc_count' = Store(alloc_count, WrapSub(old))
          /\ pc' = [pc EXCEPT ![t] = IF WasLast(old) THEN "free" ELSE "idle"]
          /\ last' = Ev(t, op, 0, IF WasLast(old) THEN "last" ELSE "more")

\* impl Drop for Weak, lines 69-70: fence(Acquire); drop(Box::from_raw(..))
\* The memory goes back to the allocator: the model keeps no contents for
\* it (both variables are zeroed, and Read no longer looks at them).
Free(t) ==
    /\ pc[t] = "free"
    /\ stale' = stale
    /\ ~aborted
    /\ num_frees' = Min(num_frees + 1, MaxEvents)
    /\ arc_count' = 0
    /\ alloc_count' = 0
    /\ pc' = [pc EXCEPT ![t] = "idle"]
    /\ last' = Ev(t, "free", Min(num_frees + 1, MaxEvents), "freed")
    /\ UNCHANGED << seen, unguarded, arcs, weaks, n, num_drops, aborted, dangling >>

\* An Arc::drop that releases the implicit weak unit whatever it found.
ArcDropEager(t) ==
    /\ CanStart(t)
    /\ Written(t, "up_loop")
    /\ CanDropArc
    /\ dangling' = dangling
    /\ \E old \in Read(arc_count) :
          /\ arc_count' = Store(arc_count, WrapSub(old))
          /\ pc' = [pc EXCEPT ![t] = IF WasLast(old) THEN "destroy"
                                                     ELSE "implicit_weak"]
          /\ last' = Ev(t, "arc_drop", 0,
                        IF WasLast(old) THEN "last" ELSE "more")
    /\ arcs' = arcs - 1
    /\ seen' = [u \in Threads |->
                  IF seen[u] = "always" /\ arcs = 1 THEN "lost" ELSE seen[u]]
    /\ UNCHANGED << unguarded, alloc_count, weaks, n, num_drops, num_frees, aborted >>

\* impl Drop for Arc, line 133: arc_count.fetch_sub(1, Release) == 1
ArcDrop(t) ==
    /\ CanStart(t)
    /\ Written(t, "up_loop")
    /\ CanDropArc
    /\ dangling' = dangling
    /\ \E old \in Read(arc_count) :
          /\ arc_count' = Store(arc_count, WrapSub(old))
          /\ pc' = [pc EXCEPT ![t] = IF WasLast(old) THEN "destroy" ELSE "idle"]
          /\ last' = Ev(t, "arc_drop", 0,
                        IF WasLast(old) THEN "last" ELSE "more")
    /\ arcs' = arcs - 1
    /\ seen' = [u \in Threads |->
                  IF seen[u] = "always" /\ arcs = 1 THEN "lost" ELSE seen[u]]
    /\ UNCHANGED << unguarded, alloc_count, weaks, n, num_drops, num_frees, aborted >>

\* impl Drop for Arc, lines 134-137: fence(Acquire); ManuallyDrop::drop(..)
ArcDropPayload(t) ==
    /\ pc[t] = "destroy"
    /\ stale' = stale
    /\ ~aborted
    /\ num_drops' = Min(num_drops + 1, MaxEvents)
    /\ pc' = [pc EXCEPT ![t] = "implicit_weak"]
    /\ last' = Ev(t, "destroy", Min(num_drops + 1, MaxEvents), "destroyed")
    /\ UNCHANGED << seen, unguarded, arc_count, alloc_count, arcs, weaks, n, num_frees,
                    aborted, dangling >>

\* impl Drop for Arc, line 138: drop(Weak { ptr: self.ptr })
ArcDropWeak(t) ==
    /\ pc[t] = "implicit_weak"
    /\ ~aborted
    /\ WeakFetchSub(t, "implicit_weak_drop")
    /\ UNCHANGED << seen, unguarded, arc_count, arcs, weaks, n, num_drops, num_frees, aborted >>

(* ------------------------------ Weak ----------------------------------- *)

\* impl Drop for Weak, lines 67-72, on a weak handle.
WeakDrop(t) ==
    /\ CanStart(t)
    /\ CanDropWeak
    /\ weaks' = weaks - 1
    /\ WeakFetchSub(t, "weak_drop")
    /\ UNCHANGED << seen, unguarded, arc_count, arcs, n, num_drops, num_frees, aborted >>

\* impl Clone for Weak, lines 58-63: fetch_add(1, Relaxed), then abort if
\* the value before the increment exceeds usize::MAX / 2.
WeakClone(t) ==
    /\ CanStart(t)
    /\ Written(t, "dg_cas")
    /\ weaks >= 1
    /\ weaks < MaxWeaks
    /\ Call
    /\ \E old \in Read(alloc_count) :
          /\ alloc_count' = Store(alloc_count, WrapAdd(old))
          /\ IF Overflowed(old)
               THEN /\ pc' = [pc EXCEPT ![t] = "abort"]
                    /\ weaks' = weaks
                    /\ last' = Ev(t, "weak_clone", old, "abort")
               ELSE /\ pc' = pc
                    /\ weaks' = weaks + 1
                    /\ last' = Ev(t, "weak_clone", old, "Weak")
    /\ UNCHANGED << seen, unguarded, arc_count, arcs, n, num_drops, num_frees, aborted >>

\* An upgrade that reads arc_count with fetch_add(1) instead of load.
UpgradeFetchAdd(t) ==
    /\ CanStart(t)
    /\ Written(t, "up_loop")
    /\ weaks >= 1
    /\ arcs < MaxArcs
    /\ Call
    /\ \E cur \in Read(arc_count) :
          /\ n' = [n EXCEPT ![t] = cur]
          /\ arc_count' = Store(arc_count, WrapAdd(cur))
          /\ last' = Ev(t, "upgrade_load", cur, "loaded")
    /\ pc' = [pc EXCEPT ![t] = "up_loop"]
    /\ seen' = [seen EXCEPT ![t] = IF arcs >= 1 THEN "always" ELSE "absent"]
    /\ UNCHANGED << unguarded, alloc_count, arcs, weaks, num_drops, num_frees,
                    aborted >>

\* Weak::upgrade, line 28: n = arc_count.load(Relaxed)
UpgradeLoad(t) ==
    /\ CanStart(t)
    /\ Fresh(t)
    /\ weaks >= 1
    /\ arcs < MaxArcs
    /\ Call
    /\ \E cur \in Read(arc_count) :
          /\ n' = [n EXCEPT ![t] = cur]
          /\ last' = Ev(t, "upgrade_load", cur, "loaded")
    /\ pc' = [pc EXCEPT ![t] = "up_loop"]
    /\ seen' = [seen EXCEPT ![t] = IF arcs >= 1 THEN "always" ELSE "absent"]
    /\ UNCHANGED << unguarded, arc_count, alloc_count, arcs, weaks, num_drops, num_frees,
                    aborted >>

\* Weak::upgrade, lines 30-32: if n == 0 { return None }
UpgradeNone(t) ==
    /\ pc[t] = "up_loop"
    /\ Fresh(t)
    /\ ~aborted
    /\ n[t] = 0
    /\ pc' = [pc EXCEPT ![t] = "idle"]
    /\ n' = [n EXCEPT ![t] = 0]
    /\ last' = EvS(t, "upgrade", n[t], "None", seen[t])
    /\ seen' = [seen EXCEPT ![t] = "-"]
    /\ UNCHANGED << unguarded, arc_count, alloc_count, arcs, weaks, num_drops,
                    num_frees, aborted, dangling >>

\* Weak::upgrade, line 34: assert!(n <= usize::MAX / 2) fails: a panic.
UpgradePanic(t) ==
    /\ pc[t] = "up_loop"
    /\ Fresh(t)
    /\ ~aborted
    /\ n[t] # 0
    /\ n[t] > HalfMax
    /\ pc' = [pc EXCEPT ![t] = "idle"]
    /\ n' = [n EXCEPT ![t] = 0]
    /\ last' = EvS(t, "upgrade", n[t], "panic", seen[t])
    /\ seen' = [seen EXCEPT ![t] = "-"]
    /\ UNCHANGED << unguarded, arc_count, alloc_count, arcs, weaks, num_drops,
                    num_frees, aborted, dangling >>

\* An upgrade that attempts the exchange whenever n is not 0.
UpgradeMayExchangeUnbounded(t) == n[t] # 0

\* Weak::upgrade, lines 30 and 34 passed: the exchange is attempted.
UpgradeMayExchange(t) == n[t] # 0 /\ n[t] <= HalfMax

\* Weak::upgrade, lines 36-45: compare_exchange_weak(n, n + 1) succeeds
\* and Some(Arc) is returned.
UpgradeCasOk(t) ==
    /\ pc[t] = "up_loop"
    /\ Written(t, "up_loop")
    /\ ~aborted
    /\ UpgradeMayExchange(t)
    /\ dangling' = dangling
    /\ n[t] \in Read(arc_count)
    /\ arc_count' = Store(arc_count, WrapAdd(n[t]))
    /\ arcs' = arcs + 1
    /\ pc' = [pc EXCEPT ![t] = "idle"]
    /\ n' = [n EXCEPT ![t] = 0]
    /\ last' = EvS(t, "upgrade", n[t], "Some", seen[t])
    /\ seen' = [seen EXCEPT ![t] = "-"]
    /\ UNCHANGED << unguarded, alloc_count, weaks, num_drops, num_frees, aborted >>

\* Weak::upgrade, lines 40-43: the exchange fails, n = e, continue.
\* compare_exchange_weak may fail although arc_count = n (spuriously).
UpgradeCasFail(t) ==
    /\ pc[t] = "up_loop"
    /\ Fresh(t)
    /\ ~aborted
    /\ UpgradeMayExchange(t)
    /\ dangling' = dangling
    /\ \E cur \in Read(arc_count) :
          /\ n' = Reload(t, cur)
          /\ last' = Ev(t, "upgrade_retry", cur,
                        IF stale[t] THEN "changed" ELSE "spurious")
    /\ UNCHANGED << seen, unguarded, arc_count, alloc_count, arcs, weaks, pc, num_drops,
                    num_frees, aborted >>

(* ---------------------------- specification ---------------------------- *)

Step(t) ==
    \/ ArcClone(t)
    \/ ArcDeref(t)
    \/ DowngradeLoad(t)
    \/ DowngradeCasOk(t)
    \/ DowngradePanic(t)
    \/ DowngradeCasFail(t)
    \/ ArcDrop(t)
    \/ ArcDropPayload(t)
    \/ ArcDropWeak(t)
    \/ Free(t)
    \/ WeakDrop(t)
    \/ WeakClone(t)
    \/ UpgradeLoad(t)
    \/ UpgradeNone(t)
    \/ UpgradePanic(t)
    \/ UpgradeCasOk(t)
    \/ UpgradeCasFail(t)
    \/ Abort(t)

Next == \E t \in Threads : Step(t)

Spec == Init /\ [][Next]_vars

\* Scheduling: a thread that can take a step takes one in the end, and an
\* exchange that would succeed is not made to fail (spuriously) for ever.
Fairness ==
    \A t \in Threads :
        /\ WF_vars(Step(t))
        /\ WF_vars(UpgradeCasOk(t))
        /\ WF_vars(DowngradeCasOk(t))

\* The same program, with no operation but drop started on a handle whose
\* block has been deallocated.
FairInit ==
    /\ arc_count = 1
    /\ alloc_count = 1
    /\ arcs = 1
    /\ weaks = 0
    /\ pc = [t \in Threads |-> "idle"]
    /\ n = [t \in Threads |-> 0]
    /\ stale = [t \in Threads |-> FALSE]
    /\ seen = [t \in Threads |-> "-"]
    /\ unguarded = FALSE
    /\ num_drops = 0
    /\ num_frees = 0
    /\ aborted = FALSE
    /\ dangling = MaxDangling
    /\ last = Ev(0, "new", 0, "Arc")

FairSpec == FairInit /\ [][Next]_vars /\ Fairness

(* ------------------------------ claims --------------------------------- *)

\* The claims are stated for the runs in which no clone has run into its
\* overflow guard (NoAbort): the process is then alive, and a violation does
\* not rest on what other threads do while the process is being terminated.

\* Threads whose Arc::drop found the value 1 and have not yet run the
\* payload's destructor / whose Weak drop found 1 and have not yet freed.
Destroying == {t \in Threads : pc[t] = "destroy"}
Freeing == {t \in Threads : pc[t] = "free"}

\* Threads between the increment of a clone that found a value above
\* usize::MAX / 2 and the end of the process.
Aborting == {t \in Threads : pc[t] = "abort"}

\* No clone has found its counter above usize::MAX / 2: the process is
\* neither terminated nor about to be.
NoAbort == Aborting = {} /\ ~aborted

\* Every handle has been dropped and every drop has returned.
AllDropped ==
    /\ arcs = 0
    /\ weaks = 0
    /\ \A t \in Threads : pc[t] = "idle"

\* The steps that add one to a counter and return (or abort after adding).
Increments == {"arc_clone", "weak_clone", "downgrade", "upgrade"}
Incremented == last.op \in Increments /\ last.r \in {"Arc", "Weak", "Some", "abort"}

\* C1: the payload's destructor runs at most once, by the one thread whose
\* Arc::drop found the value 1 before its decrement, and never while a strong
\* handle is live.
C1_DestructorOnce ==
    NoAbort =>
        /\ num_drops + Cardinality(Destroying) <= 1
        /\ (Destroying # {} \/ last.op = "destroy") => arcs = 0

\* C1 in every state reached before downgrade has raised alloc_count past
\* the bound that clone and upgrade guard.
C1_WhileGuarded == ~unguarded => C1_DestructorOnce

\* C2: the control block is freed at most once, by one thread, and only after
\* the payload has been destroyed and every weak handle and the implicit unit
\* of the strong handles have been released.
C2_FreeOnce ==
    NoAbort =>
        /\ num_frees + Cardinality(Freeing) <= 1
        /\ (Freeing # {} \/ num_frees > 0) =>
              /\ num_drops >= 1
              /\ arcs = 0
              /\ weaks = 0
              /\ \A t \in Threads : pc[t] \notin {"destroy", "implicit_weak"}

\* C2 in every state reached before downgrade has raised alloc_count past
\* the bound that clone and upgrade guard.
C2_WhileGuarded == ~unguarded => C2_FreeOnce

\* C3: no upgrade raises arc_count from 0, and none returns Some once an
\* Arc::drop has found the value 1, the payload has been destroyed or the
\* block freed.
C3_NoResurrection ==
    (NoAbort /\ last.op = "upgrade" /\ last.r = "Some") =>
        /\ last.a # 0
        /\ Destroying = {}
        /\ num_drops = 0
        /\ num_frees = 0

\* C3 in every state reached before downgrade has raised alloc_count past
\* the bound that clone and upgrade guard.
C3_WhileGuarded == ~unguarded => C3_NoResurrection

\* C4: an upgrade during all of which a strong handle was live does not
\* return None.
C4_UpgradeNotNone ==
    (NoAbort /\ last.op = "upgrade" /\ last.s = "always") => last.r # "None"

\* C4 in every state reached before downgrade has raised alloc_count past
\* the bound that clone and upgrade guard.
C4_WhileGuarded == ~unguarded => C4_UpgradeNotNone

\* C5: an upgrade that began when every strong handle had been dropped
\* returns None.
C5_UpgradeNone ==
    (NoAbort /\ last.op = "upgrade" /\ last.s = "absent") => last.r = "None"

\* C5 in every state reached before downgrade has raised alloc_count past
\* the bound that clone and upgrade guard.
C5_WhileGuarded == ~unguarded => C5_UpgradeNone

\* C6: while a strong handle is live the payload is not destroyed and the
\* block is not freed, and deref reads the value the block was built with.
C6_DerefValue ==
    NoAbort =>
        /\ arcs >= 1 => (num_drops = 0 /\ num_frees = 0)
        /\ last.op = "deref" => last.r = Value

\* C6 in every state reached before downgrade has raised alloc_count past
\* the bound that clone and upgrade guard.
C6_WhileGuarded == ~unguarded => C6_DerefValue

\* C7: the block is never freed while a handle exists or an operation on it,
\* the implicit weak release of the last Arc::drop included, is under way.
C7_NoUseAfterFree ==
    (NoAbort /\ (Freeing # {} \/ num_frees > 0)) =>
        /\ arcs = 0
        /\ weaks = 0
        /\ \A t \in Threads : pc[t] \in {"idle", "free"}

\* C7 in every state reached before downgrade has raised alloc_count past
\* the bound that clone and upgrade guard.
C7_WhileGuarded == ~unguarded => C7_NoUseAfterFree

\* C8: when every handle has been dropped (and nothing aborted) the payload
\* has been destroyed and the block has been freed.
C8_NoLeak == (NoAbort /\ AllDropped) => (num_drops >= 1 /\ num_frees >= 1)

\* C8 in every state reached before downgrade has raised alloc_count past
\* the bound that clone and upgrade guard.
C8_WhileGuarded == ~unguarded => C8_NoLeak

\* C9: no step that adds one to a counter of the allocated block finds
\* usize::MAX there, so no counter wraps to a smaller value.
C9_NoWrap ==
    (NoAbort /\ num_frees = 0) => ~(Incremented /\ last.a = UsizeMax)

\* The last Arc::drop has destroyed the payload while weak handles remain.
C1_Witness ==
    NoAbort /\ ~unguarded /\ last.op = "destroy" /\ arcs = 0 /\ weaks >= 1

\* The block has been freed by the drop of the last weak handle, after the
\* payload was destroyed.
C2_Witness ==
    /\ NoAbort /\ ~unguarded
    /\ last.op = "free" /\ last.a = 1
    /\ num_drops = 1 /\ num_frees = 1

\* An upgrade that began with a strong handle live has lost the race against
\* the last Arc::drop and returned None.
C3_Witness ==
    NoAbort /\ ~unguarded /\ last.op = "upgrade" /\ last.s = "lost" /\ last.r = "None"

\* An upgrade during which a strong handle was live has returned Some,
\* having exchanged an arc_count of at least 2.
C4_Witness ==
    /\ NoAbort /\ ~unguarded
    /\ last.op = "upgrade" /\ last.s = "always" /\ last.r = "Some"
    /\ last.a >= 2

\* An upgrade begun after the last strong handle was dropped has returned
\* None while another weak handle is live.
C5_Witness ==
    /\ NoAbort /\ ~unguarded
    /\ last.op = "upgrade" /\ last.s = "absent" /\ last.r = "None"
    /\ weaks >= 2

\* A thread has dereferenced one of several strong handles.
C6_Witness ==
    /\ NoAbort /\ ~unguarded
    /\ last.op = "deref" /\ last.r = Value
    /\ arcs >= 2 /\ weaks >= 1

\* The last Arc::drop is about to free the block through its implicit weak
\* release, no handle being left.
C7_Witness ==
    /\ NoAbort /\ ~unguarded
    /\ Freeing # {} /\ last.op = "implicit_weak_drop"
    /\ arcs = 0 /\ weaks = 0

\* Every handle has been dropped, the payload destroyed and the block freed.
C8_Witness ==
    NoAbort /\ ~unguarded /\ AllDropped /\ num_drops = 1 /\ num_frees = 1

\* Arc::downgrade has added one to alloc_count = usize::MAX and returned.
C9_Witness ==
    /\ NoAbort /\ num_frees = 0
    /\ last.op = "downgrade" /\ last.r = "Weak" /\ last.a = UsizeMax
    /\ alloc_count = 0

\* Thread t is inside the retry loop of upgrade or downgrade.
InLoop(t) == pc[t] \in {"up_loop", "dg_cas"}
Retried == last.op \in {"upgrade_retry", "downgrade_retry"}

\* C10 as stated: an exchange fails only if another thread has written the
\* counter since the thread read it.
C10_FailsOnlyIfChanged == Retried => last.r = "changed"

\* C10, amended: a failed exchange leaves in n the value it has just read,
\* and a thread in a loop leaves it unless another thread writes the counter
\* first: with a stale n it re-reads, with a current n it returns (or the
\* process is terminated).
C10_Progress ==
    /\ [](Retried => n[last.t] = last.a)
    /\ \A t \in Threads :
          /\ (InLoop(t) /\ stale[t]) ~> (~InLoop(t) \/ ~stale[t] \/ ~NoAbort)
          /\ (InLoop(t) /\ ~stale[t]) ~> (~InLoop(t) \/ stale[t] \/ ~NoAbort)

\* A failed exchange in upgrade caused by another thread's write, after
\* which n holds the current value of arc_count.
C10_Witness ==
    /\ last.op = "upgrade_retry"
    /\ last.r = "changed"
    /\ num_frees = 0
    /\ n[last.t] = arc_count

(* --------------------------- the two counters -------------------------- *)

\* A handle exists, or a drop that took the last one is still running.
InUse == arcs + weaks >= 1 \/ \E t \in Threads : pc[t] # "idle"

\* C11: while the block is in use, what an access to arc_count finds is the
\* number of live strong handles.
C11_CountsStrong == (NoAbort /\ InUse) => Read(arc_count) = {arcs}

\* C11 in every state reached before downgrade has raised alloc_count past
\* the bound that clone and upgrade guard.
C11_WhileGuarded == ~unguarded => C11_CountsStrong

\* Three strong handles, made by Arc::new, Arc::clone and a successful
\* upgrade, are counted by arc_count.
C11_Witness ==
    /\ NoAbort /\ ~unguarded
    /\ last.op = "upgrade" /\ last.r = "Some"
    /\ arcs = 3 /\ arc_count = 3

\* The unit of alloc_count that stands for all strong handles is held: a
\* strong handle exists, or the last Arc::drop has not yet released it.
ImplicitUnit ==
    IF arcs >= 1 \/ \E t \in Threads : pc[t] \in {"destroy", "implicit_weak"}
    THEN 1 ELSE 0

\* C12: on the allocated block alloc_count is the number of live weak
\* handles, plus one until the last Arc::drop has released the implicit unit.
C12_CountsWeak ==
    (NoAbort /\ num_frees = 0) => alloc_count = weaks + ImplicitUnit

\* C12 in every state reached before downgrade has raised alloc_count past
\* the bound that clone and upgrade guard.
C12_WhileGuarded == ~unguarded => C12_CountsWeak

\* The last Arc::drop has released the implicit unit and two weak handles
\* are left: alloc_count = 2.
C12_Witness ==
    /\ NoAbort /\ ~unguarded
    /\ last.op = "implicit_weak_drop" /\ last.r = "more"
    /\ arcs = 0 /\ weaks = 2 /\ alloc_count = 2

\* C13: alloc_count of the allocated block is at least 1 while a handle
\* exists (or the last Arc::drop still holds the implicit unit), it is 0 once
\* a drop has found 1, and no clone or downgrade finds it at 0 and raises it.
C13_AtLeastOne ==
    (NoAbort /\ num_frees = 0) =>
        /\ weaks + ImplicitUnit >= 1 => alloc_count >= 1
        /\ ~(last.op \in {"weak_clone", "downgrade"} /\ last.a = 0)
        /\ (last.op \in {"weak_drop", "implicit_weak_drop"} /\ last.r = "last") =>
              alloc_count = 0

\* C13 in every state reached before downgrade has raised alloc_count past
\* the bound that clone and upgrade guard.
C13_WhileGuarded == ~unguarded => C13_AtLeastOne

\* The drop of the last weak handle has taken alloc_count from 1 to 0, after
\* the payload was destroyed; the block is about to be freed.
C13_Witness ==
    /\ NoAbort /\ ~unguarded
    /\ last.op = "weak_drop" /\ last.r = "last"
    /\ alloc_count = 0 /\ arcs = 0 /\ weaks = 0 /\ num_drops = 1
    /\ num_frees = 0

(* ------------------------- destruction and errors ---------------------- *)

\* C14: the Arc::drop that found arc_count = 1 destroys the payload before
\* it goes on to its weak release and returns, and while weak handles remain
\* after the destruction the block is neither freed nor about to be.
C14_DestroyedNotFreed ==
    NoAbort =>
        /\ (last.op = "arc_drop" /\ last.r = "last") => pc[last.t] = "destroy"
        /\ (\E t \in Threads : pc[t] = "implicit_weak") => num_drops >= 1
        /\ last.op = "implicit_weak_drop" => num_drops >= 1
        /\ (num_drops >= 1 /\ weaks >= 1) => (num_frees = 0 /\ Freeing = {})

\* C14 in every state reached before downgrade has raised alloc_count past
\* the bound that clone and upgrade guard.
C14_WhileGuarded == ~unguarded => C14_DestroyedNotFreed

\* The last Arc::drop has returned with three weak handles live: the payload
\* is destroyed, the block allocated.
C14_Witness ==
    /\ NoAbort /\ ~unguarded
    /\ last.op = "implicit_weak_drop" /\ last.r = "more"
    /\ num_drops = 1 /\ weaks = 3 /\ num_frees = 0
    /\ \A t \in Threads : pc[t] = "idle"

\* C15: a downgrade that returns a weak handle has raised alloc_count of the
\* allocated block by exactly one and the number of weak handles by one,
\* whatever other threads did to alloc_count while it ran.
C15_NoLostUpdate ==
    [][\A t \in Threads :
          (/\ NoAbort /\ num_frees = 0
           /\ pc[t] = "dg_cas" /\ pc'[t] = "idle" /\ last'.r = "Weak") =>
              (alloc_count' = alloc_count + 1 /\ weaks' = weaks + 1)]_vars

\* C15 for the downgrades that exchange a value within the bound that clone
\* and upgrade guard.
C15_WhileGuarded ==
    [][\A t \in Threads :
          (/\ NoAbort /\ num_frees = 0 /\ ~unguarded'
           /\ pc[t] = "dg_cas" /\ pc'[t] = "idle" /\ last'.r = "Weak") =>
              (alloc_count' = alloc_count + 1 /\ weaks' = weaks + 1)]_vars

\* A downgrade has returned after a failed exchange caused by another
\* thread's write of alloc_count, and alloc_count counts both.
C15_Witness ==
    /\ NoAbort /\ ~unguarded /\ num_frees = 0
    /\ last.op = "downgrade" /\ last.r = "Weak" /\ last.a >= 2
    /\ arcs >= 1 /\ alloc_count = weaks + 1 /\ alloc_count = last.a + 1

CloneEffect(t, found, c, cAfter, h, hAfter) ==
    IF found > HalfMax
    THEN /\ last'.r = "abort"
         /\ pc'[t] = "abort"
         /\ hAfter = h
    ELSE /\ last'.r \in {"Arc", "Weak"}
         /\ pc'[t] = "idle"
         /\ hAfter = h + 1
         /\ num_frees = 0 => (found = c /\ cAfter = c + 1)

\* C17: Arc::clone and Weak::clone abort exactly when the value they find
\* in their counter is above usize::MAX / 2, nothing but the end of the
\* process follows for that thread, and in every other case they add one to
\* the counter and make one new handle.
C17_CloneGuard ==
    /\ [](last.op \in {"arc_clone", "weak_clone"} =>
            (last.r = "abort" <=> last.a > HalfMax))
    /\ [][\A t \in Threads :
            /\ (last'.t = t /\ last'.op = "arc_clone") =>
                  CloneEffect(t, last'.a, arc_count, arc_count', arcs, arcs')
            /\ (last'.t = t /\ last'.op = "weak_clone") =>
                  CloneEffect(t, last'.a, alloc_count, alloc_count', weaks, weaks')
            /\ (pc[t] = "abort" /\ last'.t = t) => aborted']_vars

\* Weak::clone has found alloc_count = 4 > usize::MAX / 2, the count of
\* three weak handles and the implicit unit, and is about to abort.
C17_Witness ==
    /\ last.op = "weak_clone" /\ last.r = "abort"
    /\ last.a = HalfMax + 1
    /\ pc[last.t] = "abort"
    /\ num_frees = 0 /\ ~unguarded /\ weaks = HalfMax /\ arcs >= 1

(* ------------------------------- frames -------------------------------- *)

\* The step just taken is by thread t and has recorded op with result r.
Did(t, op, r) == last'.t = t /\ last'.op = op /\ last'.r = r

\* A step on the allocated block changes counter c.
Changes(c, cAfter) == num_frees = 0 => cAfter # c

\* C18: Arc::clone, a successful upgrade and an Arc::drop that found more
\* than 1 change arc_count and leave alloc_count, the weak handles, the
\* payload and the allocation alone; Weak::clone, downgrade and a Weak drop
\* that found more than 1 change alloc_count and leave arc_count, the strong
\* handles, the payload and the allocation alone; these drops return at
\* once; deref changes nothing.
C18_Frame ==
    [][\A t \in Threads :
          /\ (\/ Did(t, "arc_clone", "Arc") \/ Did(t, "arc_clone", "abort")
              \/ Did(t, "upgrade", "Some")
              \/ Did(t, "arc_drop", "more")) =>
                /\ UNCHANGED << alloc_count, weaks, num_drops, num_frees >>
                /\ Changes(arc_count, arc_count')
          /\ (\/ Did(t, "weak_clone", "Weak") \/ Did(t, "weak_clone", "abort")
              \/ Did(t, "downgrade", "Weak")
              \/ Did(t, "weak_drop", "more")) =>
                /\ UNCHANGED << arc_count, arcs, num_drops, num_frees >>
                /\ Changes(alloc_count, alloc_count')
          /\ (Did(t, "arc_drop", "more") \/ Did(t, "weak_drop", "more")) =>
                pc'[t] = "idle"
          /\ Did(t, "deref", Value) =>
                UNCHANGED << arc_count, alloc_count, arcs, weaks, num_drops,
                             num_frees, pc, n >>]_vars

\* An Arc::drop has found more than 1 and returned, with strong and weak
\* handles left.
C18_Witness ==
    /\ NoAbort /\ num_frees = 0
    /\ last.op = "arc_drop" /\ last.r = "more"
    /\ pc[last.t] = "idle"
    /\ arcs >= 1 /\ arc_count = arcs /\ weaks >= 1 /\ alloc_count = weaks + 1

\* C19: no step of an upgrade that ends in None (its load, its failed
\* exchanges, its return) changes arc_count, alloc_count, the payload, the
\* allocation or the handles; after it the weak handle is still there, the
\* thread is free to go on, and on the allocated block upgrade can be called
\* again.
C19_NoneChangesNothing ==
    /\ [][\A t \in Threads :
            (\/ Did(t, "upgrade_load", "loaded")
             \/ (last'.t = t /\ last'.op = "upgrade_retry")
             \/ Did(t, "upgrade", "None")) =>
                UNCHANGED << arc_count, alloc_count, arcs, weaks, num_drops,
                             num_frees >>]_vars
    /\ []((last.op = "upgrade" /\ last.r = "None") =>
            /\ weaks >= 1
            /\ pc[last.t] = "idle"
            /\ num_frees = 0 => ENABLED UpgradeLoad(last.t))

\* An upgrade that began with a strong handle live has retried after the
\* last Arc::drop and returned None; two weak handles are live.
C19_Witness ==
    /\ NoAbort /\ ~unguarded /\ num_frees = 0
    /\ last.op = "upgrade" /\ last.r = "None" /\ last.s = "lost"
    /\ arc_count = 0 /\ arcs = 0 /\ weaks = 2 /\ alloc_count >= 2

(* ------------------------------ ordering ------------------------------- *)

\* The steps that read or write the control block through a handle, and the
\* steps of the last Arc::drop that follow its decrement.
HandleAccess ==
    {"arc_clone", "deref", "downgrade_load", "downgrade", "downgrade_retry",
     "arc_drop", "weak_clone", "weak_drop", "upgrade_load", "upgrade",
     "upgrade_retry", "destroy", "implicit_weak_drop"}

\* C20 (what it promises): every access made through a handle comes before
\* the block is freed, and every read of the payload before the payload is
\* destroyed.
C20_AccessBeforeFree ==
    NoAbort =>
        /\ last.op \in HandleAccess => num_frees = 0
        /\ last.op = "deref" => num_drops = 0

\* C20 in every state reached before downgrade has raised alloc_count past
\* the bound that clone and upgrade guard.
C20_WhileGuarded == ~unguarded => C20_AccessBeforeFree

\* Every handle has been dropped, the payload was destroyed by the last
\* Arc::drop, and thread 2 has then freed the block.
C20_Witness ==
    /\ NoAbort /\ ~unguarded
    /\ last.op = "free" /\ last.t = 2
    /\ num_drops = 1 /\ num_frees = 1
    /\ AllDropped

=============================================================================
